---- MODULE Spec2Model ----
(***************************************************************************)
(* A model of the lesson-marketplace REST backend (server.js): the lessons *)
(* and orders collections of the document store, and the route handlers    *)
(* of concurrent HTTP requests.  A handler runs synchronously up to each   *)
(* awaited store call; every action below is one such synchronous piece,   *)
(* so requests interleave exactly at the awaits.  The clock (new Date())   *)
(* and the image directory that createSampleImages.js fills are state too. *)
(* So are the server process from its start (connectToDatabase, listen)    *)
(* and the lesson insertion script, which shares the store with the        *)
(* server; the logger middleware writes the log lines of each request.     *)
(*                                                                         *)
(* Numbers.  Every JavaScript number x is modelled by the integer 2x (a    *)
(* count of halves), so that 0.5 and 2.5 are values of the model: a price  *)
(* of 25 is 50, a numberOfSpaces of 2.5 is 5.  NaN is a value of its own.  *)
(***************************************************************************)
EXTENDS Integers, Sequences, FiniteSets, TLC

\* ------------------------------------------------------------- bounds
\* The longest lessonIDs array a client sends.
MaxIds == 2
\* The orders collection never grows past this many documents.
MaxOrders == 2
\* The orders the client that varies every field of the body creates.
MaxSoloOrders == 1
\* The largest space (in whole seats) a lesson reaches.
MaxSpace == 2
\* The largest magnitude (in whole seats) of a seat adjustment.
MaxDelta == 2
\* The lessons created through the API.
MaxLessons == 1
\* The last instant (in milliseconds after the start) the clock reaches.
MaxClock == 2

\* ------------------------------------------------- JavaScript values
\* A value is a record of its type tag t, its number n (in halves) and its
\* sequence s (the characters of a string, the elements of an array).
Undefined == [t |-> "undefined", n |-> 0, s |-> <<>>]
Null == [t |-> "null", n |-> 0, s |-> <<>>]
NaN == [t |-> "nan", n |-> 0, s |-> <<>>]
\* The number h/2.
Number(h) == [t |-> "number", n |-> h, s |-> <<>>]
\* The whole number n.
Whole(n) == Number(2 * n)
\* A string: the sequence of its characters.
Str(s) == [t |-> "string", n |-> 0, s |-> s]
\* An array: the sequence of its elements.
Arr(s) == [t |-> "array", n |-> 0, s |-> s]

\* !x is false: the value is truthy.
Truthy(x) ==
    CASE x.t = "undefined" -> FALSE
      [] x.t = "null" -> FALSE
      [] x.t = "nan" -> FALSE
      [] x.t = "number" -> x.n # 0
      [] x.t = "string" -> Len(x.s) > 0
      [] OTHER -> TRUE

\* String.prototype.trim on a sequence of characters.
RECURSIVE TrimLeft(_)
TrimLeft(s) == IF s # <<>> /\ Head(s) = " " THEN TrimLeft(Tail(s)) ELSE s

RECURSIVE TrimRight(_)
TrimRight(s) ==
    IF s # <<>> /\ s[Len(s)] = " " THEN TrimRight(SubSeq(s, 1, Len(s) - 1)) ELSE s

Trim(s) == TrimRight(TrimLeft(s))

\* x.trim() throws a TypeError unless x is a string.
CanTrim(x) == x.t = "string"

\* The integer part of h/2, toward zero, in halves.
TruncHalves(h) == IF h >= 0 THEN 2 * (h \div 2) ELSE 0 - 2 * ((0 - h) \div 2)

\* Whether a string reads as a decimal integer prefix (the strings of the
\* model are digits-only or hold no digit at all).
IsDigit(ch) == ch \in {"0", "1", "2", "3", "4", "5", "6", "7", "8", "9"}

DigitValue(ch) ==
    CASE ch = "0" -> 0 [] ch = "1" -> 1 [] ch = "2" -> 2 [] ch = "3" -> 3
      [] ch = "4" -> 4 [] ch = "5" -> 5 [] ch = "6" -> 6 [] ch = "7" -> 7
      [] ch = "8" -> 8 [] OTHER -> 9

RECURSIVE DigitsValue(_, _)
DigitsValue(s, acc) ==
    IF s = <<>> \/ ~IsDigit(Head(s)) THEN acc
    ELSE DigitsValue(Tail(s), 10 * acc + DigitValue(Head(s)))

\* The decimal integer a string starts with, after leading blanks and an
\* optional sign; NaN when it starts with none.
LeadingInteger(chars) ==
    LET s == TrimLeft(chars)
        signed == s # <<>> /\ Head(s) \in {"-", "+"}
        digits == IF signed THEN Tail(s) ELSE s
    IN  IF digits # <<>> /\ IsDigit(Head(digits))
        THEN (IF signed /\ Head(s) = "-"
              THEN Whole(0 - DigitsValue(digits, 0))
              ELSE Whole(DigitsValue(digits, 0)))
        ELSE NaN

\* parseInt(x): a number is truncated toward zero; a string is read up to
\* its first non-digit after leading blanks and a sign; anything else is NaN.
ParseInt(x) ==
    CASE x.t = "number" -> Number(TruncHalves(x.n))
      [] x.t = "string" -> LeadingInteger(x.s)
      [] OTHER -> NaN

\* parseFloat(x): a number is itself; a string is read as far as it is a
\* number (the strings of the model hold no fraction); anything else is NaN.
ParseFloat(x) ==
    CASE x.t = "number" -> x
      [] x.t = "string" -> LeadingInteger(x.s)
      [] OTHER -> NaN

\* a + b on numbers (NaN is absorbing).
Plus(a, b) == IF a.t = "number" /\ b.t = "number" THEN Number(a.n + b.n) ELSE NaN

\* a * b on numbers: (a/2)*(b/2) in halves.  The model multiplies only
\* where one factor is whole, so the division is exact.
Times(a, b) ==
    IF a.t = "number" /\ b.t = "number" THEN Number((a.n * b.n) \div 2) ELSE NaN

\* Math.max(0, x): NaN when x is NaN.
MaxZero(x) == IF x.t = "number" THEN (IF x.n > 0 THEN x ELSE Number(0)) ELSE NaN

Range(s) == {s[i] : i \in 1..Len(s)}

\* ---------------------------------------------------------- the store
\* The well-formed store identifiers (24 hex digits) of the model.  L3 is a
\* well-formed identifier of no lesson.
LessonIds == {"L1", "L2", "L3"}
\* What a client may send as an identifier: "bad" is not well formed.
IdValues == LessonIds \cup {"bad"}
\* The identifiers the store gives to the lessons it inserts, in order.
FreshIds == <<"L4", "L5">>
\* Every identifier a lesson document may have.
StoreIds == LessonIds \cup {FreshIds[i] : i \in 1..Len(FreshIds)}
\* The order in which the store returns lesson documents.
StoreOrder == <<"L1", "L2", "L3", "L4", "L5">>
\* No date: the createdAt of a seeded lesson, which has none.
NoDate == 0 - 1

Clients == {"c1", "c2"}

VARIABLES
    lessons,    \* the lessons collection: identifier -> document
    orders,     \* the orders collection: the documents in insertion order
    req,        \* client -> its request and the position of its handler
    now,        \* the clock: what new Date() returns
    files,      \* the names of the files of public/images/lessons
    server,     \* the server process: its phase and whether db is set
    script      \* the lesson insertion script: its position and its counts

vars == <<lessons, orders, req, now, files, server, script>>

\* The seeded lessons collection (space scaled to the model's bounds).
\* A string is the sequence of its characters; a run of characters that are
\* no blanks is written as one element (<<"London">>).
InitLessons ==
    [l \in StoreIds |->
        CASE l = "L1" -> [_id |-> l, exists |-> TRUE, topic |-> <<"Mathematics">>,
                          price |-> Whole(25), location |-> <<"London">>,
                          space |-> Whole(1), createdAt |-> NoDate]
          [] l = "L2" -> [_id |-> l, exists |-> TRUE, topic |-> <<"Physics">>,
                          price |-> Whole(35), location |-> <<"Birmingham">>,
                          space |-> Whole(1), createdAt |-> NoDate]
          [] OTHER -> [_id |-> l, exists |-> FALSE, topic |-> <<>>,
                       price |-> Whole(0), location |-> <<>>, space |-> Whole(0),
                       createdAt |-> NoDate]]

\* The identifiers of the order documents as clients write them: that of the
\* i-th order inserted is OrderKeys[i].
OrderKeys == <<"O1", "O2", "O3", "O4">>

\* new ObjectId(id) throws unless id is well formed.
ObjectIdOk(id) == id \in StoreIds \cup Range(OrderKeys)

\* FindLessons returning a document for every identifier listed, as often
\* as it is listed.
FindLessonsPerListing(ids) ==
    LET RECURSIVE Pick(_)
        Pick(k) == IF k > Len(ids) THEN <<>>
                   ELSE (IF ids[k] \in StoreIds /\ lessons[ids[k]].exists
                         THEN <<lessons[ids[k]]>> ELSE <<>>) \o Pick(k + 1)
    IN  Pick(1)

\* db.collection('lessons').find({_id: {$in: ids}}).toArray()
FindLessons(ids) ==
    LET hit(l) == lessons[l].exists /\ l \in Range(ids)
        RECURSIVE Pick(_)
        Pick(k) == IF k > Len(StoreOrder) THEN <<>>
                   ELSE (IF hit(StoreOrder[k]) THEN <<lessons[StoreOrder[k]]>>
                         ELSE <<>>) \o Pick(k + 1)
    IN  Pick(1)

\* db.collection('lessons').findOne({_id: id}): the document, or none.
NoLesson == [_id |-> "", exists |-> FALSE, topic |-> <<>>, price |-> Whole(0),
             location |-> <<>>, space |-> Whole(0), createdAt |-> NoDate]

FindOneLesson(id) ==
    IF id \notin StoreIds THEN NoLesson
    ELSE IF lessons[id].exists THEN lessons[id] ELSE NoLesson

NoOrder ==
    [_id |-> 0, name |-> <<>>, phoneNumber |-> <<>>, lessonIDs |-> <<>>,
     numberOfSpaces |-> Number(0), totalPrice |-> Number(0), orderDate |-> 0,
     status |-> "", email |-> Null, notes |-> Null, lessonDetails |-> <<>>]

\* db.collection('orders').findOne({_id: id}): the document, or none.
FindOneOrder(id) ==
    IF \E i \in 1..Len(orders) : orders[i]._id = id
    THEN orders[CHOOSE i \in 1..Len(orders) : orders[i]._id = id]
    ELSE NoOrder

\* ------------------------------------------------------- the requests
NoBody ==
    [name |-> Undefined, phoneNumber |-> Undefined, lessonIDs |-> Undefined,
     numberOfSpaces |-> Undefined, email |-> Undefined, notes |-> Undefined,
     change |-> Undefined,
     topic |-> Undefined, location |-> Undefined, price |-> Undefined,
     space |-> Undefined]

\* The request headers of the model, by the lower-case names node gives
\* them in req.headers.
HeaderNames == {"authorization", "cookie", "x-api-key", "user-agent"}

\* The value of a header the request does not have.
Absent == ""

NoHeaders == [h \in HeaderNames |-> Absent]

\* A client with no request in flight.  Of the request it keeps the lines
\* the logger wrote for it (log); of the response the number of times one
\* was sent (sent), the status, the Content-Type and Cache-Control headers
\* (ctype, cache), the keys of a JSON object that is no document (keys) and
\* the documents sent.
Idle ==
    [op |-> "none", pc |-> "idle", method |-> "", path |-> <<>>,
     headers |-> NoHeaders, log |-> <<>>, sent |-> 0,
     id |-> "", body |-> NoBody,
     ids |-> <<>>, newOrder |-> NoOrder, insertedId |-> 0,
     newLesson |-> NoLesson, lessonId |-> "",
     read |-> Number(0), newSpace |-> Number(0),
     calls |-> <<>>, rejected |-> FALSE,
     status |-> 0, ctype |-> "", cache |-> "", keys |-> {}, error |-> "",
     order |-> NoOrder, lesson |-> NoLesson, orderList |-> <<>>,
     lessonList |-> <<>>]

\* ---------------------------------------------------------- the logger
\* The headers whose values the logger hides.
SensitiveHeaders == {"authorization", "cookie", "x-api-key"}

Hidden == "[HIDDEN FOR SECURITY]"

\* LoggedHeaders hiding the authorization and x-api-key headers only.
LoggedHeadersCookieShown(headers) ==
    [h \in HeaderNames |->
        IF headers[h] # Absent /\ h \in {"authorization", "x-api-key"}
        THEN Hidden ELSE headers[h]]

\* The header lines of the incoming entry: one for each header the request
\* has, with its value or, for a sensitive header, the hidden mark.
LoggedHeaders(headers) ==
    [h \in HeaderNames |->
        IF headers[h] # Absent /\ h \in SensitiveHeaders THEN Hidden ELSE headers[h]]

\* The incoming-request entry of the log: the timestamp, the method, the
\* URL, the user agent, the header lines and, for POST, PUT and PATCH, the
\* body.
Incoming(r) ==
    [kind |-> "incoming", time |-> now, method |-> r.method, path |-> r.path,
     userAgent |-> IF r.headers["user-agent"] = Absent THEN "unknown"
                   ELSE r.headers["user-agent"],
     headers |-> LoggedHeaders(r.headers),
     body |-> IF r.method \in {"POST", "PUT", "PATCH"} THEN r.body ELSE NoBody,
     status |-> 0]

\* The outgoing-response entry the replaced res.end writes.
Outgoing(r, status) ==
    [kind |-> "outgoing", time |-> now, method |-> r.method, path |-> r.path,
     userAgent |-> "", headers |-> NoHeaders, body |-> NoBody, status |-> status]

\* The logger middleware runs for the request: it writes the incoming entry
\* and replaces res.end.
Logger(r) == [r EXCEPT !.log = Append(@, Incoming(r))]

\* Whether the logger ran for the request, so that its res.end is in place.
Logged(r) == \E i \in 1..Len(r.log) : r.log[i].kind = "incoming"

\* res.status(status).json(...): the response is sent and ends, which the
\* logger's res.end records, and the handler is over.  The body is {error}
\* when there is an error, and otherwise a document the caller adds.
Respond(r, status, error) ==
    [r EXCEPT !.pc = "done", !.status = status, !.error = error,
              !.sent = @ + 1,
              !.log = IF Logged(r) THEN Append(@, Outgoing(r, status)) ELSE @,
              !.ctype = "application/json",
              !.keys = IF error = "" THEN {} ELSE {"error"}]

\* An exception reaches the handler's catch, which answers 500.
Catch(r, error) == Respond(r, 500, error)

\* Reject issuing the rejected call again instead of answering.
RejectRetrying(r, error) ==
    [r EXCEPT !.rejected = TRUE, !.calls = Append(@, r.calls[Len(r.calls)])]

\* An awaited store call rejects: the exception reaches the catch.
Reject(r, error) == [Catch(r, error) EXCEPT !.rejected = TRUE]

\* The handler issues a store call and awaits it at pc.
Await(r, pc, call) == [r EXCEPT !.pc = pc, !.calls = Append(@, call)]

\* The server process: connecting to the store, connected (db is set),
\* listening, or exited.
Serving == [phase |-> "listening", db |-> TRUE]

Listening == server.phase = "listening"

\* The lesson insertion script when it does not run.
ScriptOff == [pc |-> "off", existingCount |-> 0, insertedCount |-> 0, totalCount |-> 0]

\* The server has connected and listens, the lessons are seeded, and there
\* is no order, no request and no image yet.
Init ==
    /\ lessons = InitLessons
    /\ orders = <<>>
    /\ req = [c \in Clients |-> Idle]
    /\ now = 0
    /\ files = {}
    /\ server = Serving
    /\ script = ScriptOff

\* ------------------------------------------------- POST /api/orders
\* OrderCheck with name left out of the presence check.
OrderCheckNameOptional(b) ==
    IF ~Truthy(b.phoneNumber) \/ ~Truthy(b.lessonIDs) \/ ~Truthy(b.numberOfSpaces)
    THEN "missing"
    ELSE IF b.lessonIDs.t # "array" \/ Len(b.lessonIDs.s) = 0
    THEN "lessonIDs"
    ELSE IF b.numberOfSpaces.t # "number" \/ b.numberOfSpaces.n <= 0
    THEN "numberOfSpaces"
    ELSE IF \E i \in 1..Len(b.lessonIDs.s) : ~ObjectIdOk(b.lessonIDs.s[i])
    THEN "throw"
    ELSE "ok"

\* The checks of the handler before its first store call, in order: the
\* name of the first that fails, "throw" when new ObjectId throws, or "ok".
OrderCheck(b) ==
    IF \/ ~Truthy(b.name) \/ ~Truthy(b.phoneNumber)
       \/ ~Truthy(b.lessonIDs) \/ ~Truthy(b.numberOfSpaces)
    THEN "missing"
    ELSE IF b.lessonIDs.t # "array" \/ Len(b.lessonIDs.s) = 0
    THEN "lessonIDs"
    ELSE IF b.numberOfSpaces.t # "number" \/ b.numberOfSpaces.n <= 0
    THEN "numberOfSpaces"
    ELSE IF \E i \in 1..Len(b.lessonIDs.s) : ~ObjectIdOk(b.lessonIDs.s[i])
    THEN "throw"
    ELSE "ok"

\* lessons.reduce((sum, lesson) => sum + lesson.price, 0)
RECURSIVE SumPrices(_)
SumPrices(found) ==
    IF found = <<>> THEN Number(0)
    ELSE Plus(SumPrices(SubSeq(found, 1, Len(found) - 1)), found[Len(found)].price)

\* TotalPrice without the multiplication by numberOfSpaces.
TotalPriceIgnoringSpaces(found, numberOfSpaces) == SumPrices(found)

\* lessons.reduce(...) * numberOfSpaces
TotalPrice(found, numberOfSpaces) == Times(SumPrices(found), numberOfSpaces)

\* email ? email.trim() : null
TrimOrNull(x) == IF Truthy(x) THEN Trim(x.s) ELSE Null

\* Whether building newOrder throws: .trim() of a value that is no string.
NewOrderThrows(b) ==
    \/ ~CanTrim(b.name) \/ ~CanTrim(b.phoneNumber)
    \/ (Truthy(b.email) /\ ~CanTrim(b.email))
    \/ (Truthy(b.notes) /\ ~CanTrim(b.notes))

\* NewOrder with a snapshot of the first lesson found only.
NewOrderFirstDetail(b, ids, found) ==
    [_id |-> 0,
     name |-> Trim(b.name.s),
     phoneNumber |-> Trim(b.phoneNumber.s),
     lessonIDs |-> ids,
     numberOfSpaces |-> ParseInt(b.numberOfSpaces),
     totalPrice |-> TotalPrice(found, b.numberOfSpaces),
     orderDate |-> now,
     status |-> "pending",
     email |-> TrimOrNull(b.email),
     notes |-> TrimOrNull(b.notes),
     lessonDetails |->
        [i \in 1..1 |->
            [id |-> found[i]._id, topic |-> found[i].topic,
             price |-> found[i].price, location |-> found[i].location]]]

\* The newOrder document built from the body and the lessons found.
NewOrder(b, ids, found) ==
    [_id |-> 0,
     name |-> Trim(b.name.s),
     phoneNumber |-> Trim(b.phoneNumber.s),
     lessonIDs |-> ids,
     numberOfSpaces |-> ParseInt(b.numberOfSpaces),
     totalPrice |-> TotalPrice(found, b.numberOfSpaces),
     orderDate |-> now,
     status |-> "pending",
     email |-> TrimOrNull(b.email),
     notes |-> TrimOrNull(b.notes),
     lessonDetails |->
        [i \in 1..Len(found) |->
            [id |-> found[i]._id, topic |-> found[i].topic,
             price |-> found[i].price, location |-> found[i].location]]]

\* Order requests in flight that may still insert.
OrdersInFlight ==
    Cardinality({c \in Clients : req[c].op = "order" /\ req[c].pc \in {"find", "insert"}})

\* The request arrives and the handler runs to its first await.  A client
\* sends none once max orders exist or are about to.
PostOrder(c, b, max) ==
    /\ Listening /\ req[c].pc = "idle"
    /\ Len(orders) + OrdersInFlight < max
    /\ LET r == Logger([Idle EXCEPT !.op = "order", !.method = "POST",
                                     !.path = <<"api", "orders">>, !.body = b])
           check == OrderCheck(b)
       IN  req' = [req EXCEPT ![c] =
                CASE check = "missing" ->
                        Respond(r, 400, "Missing required fields: name, phoneNumber, lessonIDs, numberOfSpaces")
                  [] check = "lessonIDs" ->
                        Respond(r, 400, "lessonIDs must be a non-empty array (1 or more lesson IDs)")
                  [] check = "numberOfSpaces" ->
                        Respond(r, 400, "numberOfSpaces must be a positive number")
                  [] check = "throw" -> Catch(r, "Failed to create order")
                  [] OTHER -> Await([r EXCEPT !.ids = b.lessonIDs.s], "find", "lessons.find")]
    /\ UNCHANGED <<lessons, orders, now, files, server, script>>

\* OrderFound refusing an order that asks for more seats than a lesson has.
OrderFoundIfSeats(r) ==
    LET found == FindLessons(r.ids)
    IN  IF Len(found) # Len(r.body.lessonIDs.s)
        THEN Respond(r, 400, "One or more lesson IDs not found")
        ELSE IF \E i \in 1..Len(found) :
                    found[i].space.t = "number" /\ found[i].space.n < r.body.numberOfSpaces.n
        THEN Respond(r, 400, "Not enough spaces")
        ELSE IF NewOrderThrows(r.body)
        THEN Catch(r, "Failed to create order")
        ELSE Await([r EXCEPT !.newOrder = NewOrder(r.body, r.ids, found)],
                   "insert", "orders.insertOne")

\* The find resolves; the handler runs to the insertOne.
OrderFound(r) ==
    LET found == FindLessons(r.ids)
    IN  IF Len(found) # Len(r.body.lessonIDs.s)
        THEN Respond(r, 400, "One or more lesson IDs not found")
        ELSE IF NewOrderThrows(r.body)
        THEN Catch(r, "Failed to create order")
        ELSE Await([r EXCEPT !.newOrder = NewOrder(r.body, r.ids, found)],
                   "insert", "orders.insertOne")

OrderFind(c) ==
    /\ req[c].op = "order" /\ req[c].pc = "find"
    /\ \/ req' = [req EXCEPT ![c] = OrderFound(@)]
       \/ req' = [req EXCEPT ![c] = Reject(@, "Failed to create order")]
    /\ UNCHANGED <<lessons, orders, now, files, server, script>>

\* The document insertOne adds to the orders collection, with its new _id.
Inserted(r) == [r.newOrder EXCEPT !._id = Len(orders) + 1]

\* OrderInsert replacing the earlier order of the same customer, when there
\* is one, instead of adding a document.
OrderInsertUpsert(c) ==
    /\ req[c].op = "order" /\ req[c].pc = "insert"
    /\ \/ LET same == {i \in 1..Len(orders) :
                        /\ orders[i].name = req[c].newOrder.name
                        /\ orders[i].phoneNumber = req[c].newOrder.phoneNumber}
              at == IF same = {} THEN Len(orders) + 1 ELSE CHOOSE i \in same : TRUE
          IN  /\ orders' = IF same = {} THEN Append(orders, Inserted(req[c]))
                           ELSE [orders EXCEPT ![at] = [req[c].newOrder EXCEPT !._id = at]]
              /\ req' = [req EXCEPT ![c] =
                    Await([@ EXCEPT !.insertedId = at], "fetch", "orders.findOne")]
       \/ /\ req' = [req EXCEPT ![c] = Reject(@, "Failed to create order")]
          /\ UNCHANGED orders
    /\ UNCHANGED <<lessons, now, files, server, script>>

\* OrderInsert taking the seats booked off the first lesson of the order.
OrderInsertBooking(c) ==
    /\ req[c].op = "order" /\ req[c].pc = "insert"
    /\ \/ /\ orders' = Append(orders, Inserted(req[c]))
          /\ lessons' = [lessons EXCEPT ![req[c].ids[1]].space =
                            MaxZero(Plus(@, Number(0 - req[c].newOrder.numberOfSpaces.n)))]
          /\ req' = [req EXCEPT ![c] =
                Await([@ EXCEPT !.insertedId = Len(orders) + 1], "fetch", "orders.findOne")]
       \/ /\ req' = [req EXCEPT ![c] = Reject(@, "Failed to create order")]
          /\ UNCHANGED <<orders, lessons>>
    /\ UNCHANGED <<now, files, server, script>>

\* The insertOne resolves; the handler issues the findOne of the new order.
OrderInsert(c) ==
    /\ req[c].op = "order" /\ req[c].pc = "insert"
    /\ \/ /\ orders' = Append(orders, Inserted(req[c]))
          /\ req' = [req EXCEPT ![c] =
                Await([@ EXCEPT !.insertedId = Len(orders) + 1], "fetch", "orders.findOne")]
       \/ /\ req' = [req EXCEPT ![c] = Reject(@, "Failed to create order")]
          /\ UNCHANGED orders
    /\ UNCHANGED <<lessons, now, files, server, script>>

\* The findOne resolves; the handler answers 201 with the order.
OrderFetch(c) ==
    /\ req[c].op = "order" /\ req[c].pc = "fetch"
    /\ \/ req' = [req EXCEPT ![c] =
                [Respond(@, 201, "") EXCEPT !.order = FindOneOrder(req[c].insertedId)]]
       \/ req' = [req EXCEPT ![c] = Reject(@, "Failed to create order")]
    /\ UNCHANGED <<lessons, orders, now, files, server, script>>

\* The client has its response; it may send another request.
Ack(c) ==
    /\ req[c].pc = "done"
    /\ req' = [req EXCEPT ![c] = Idle]
    /\ UNCHANGED <<lessons, orders, now, files, server, script>>

\* ----------------------------------------- PUT /api/lessons/:id/space
\* The seats (in halves) the adjustments on lesson id that have not read
\* the lesson yet may add.
RECURSIVE PendingSeats(_, _)
PendingSeats(id, cs) ==
    IF cs = {} THEN 0
    ELSE LET c == CHOOSE x \in cs : TRUE
             d == ParseInt(req[c].body.change)
             n == IF /\ req[c].op = "space" /\ req[c].id = id
                     /\ req[c].pc = "find" /\ d.t = "number" /\ d.n > 0
                  THEN d.n ELSE 0
         IN  n + PendingSeats(id, cs \ {c})

\* The largest space (in halves) lesson id holds or is about to be set to.
TopSpace(id) ==
    LET written == {req[c].newSpace.n : c \in {x \in Clients :
                        /\ req[x].op = "space" /\ req[x].id = id
                        /\ req[x].pc = "update" /\ req[x].newSpace.t = "number"}}
        all == written \cup {IF lessons[id].space.t = "number" THEN lessons[id].space.n ELSE 0}
    IN  CHOOSE m \in all : \A k \in all : k <= m

\* The client sends no adjustment that could take a space past MaxSpace.
SpaceRoom(id, change) ==
    LET d == ParseInt(change)
    IN  IF id \notin StoreIds THEN TRUE
        ELSE IF d.t # "number" THEN TRUE
        ELSE IF d.n <= 0 THEN TRUE
        ELSE TopSpace(id) + PendingSeats(id, Clients) + d.n <= 2 * MaxSpace

\* The request arrives and the handler runs to its first await.
PutSpace(c, id, change) ==
    /\ Listening /\ req[c].pc = "idle"
    /\ SpaceRoom(id, change)
    /\ LET r == Logger([Idle EXCEPT !.op = "space", !.method = "PUT",
                                     !.path = <<"api", "lessons", id, "space">>,
                                     !.id = id, !.body.change = change])
       IN  req' = [req EXCEPT ![c] =
                IF change = Undefined
                THEN Respond(r, 400, "Change value is required")
                ELSE IF ~ObjectIdOk(id)
                THEN Catch(r, "Failed to update lesson space")
                ELSE Await(r, "find", "lessons.findOne")]
    /\ UNCHANGED <<lessons, orders, now, files, server, script>>

\* NewSpace without the floor at zero.
NewSpaceUnclamped(space, change) == Plus(space, ParseInt(change))

\* Math.max(0, lesson.space + parseInt(change))
NewSpace(space, change) == MaxZero(Plus(space, ParseInt(change)))

\* The findOne resolves; the handler runs to the updateOne.
SpaceFound(r) ==
    LET lesson == FindOneLesson(r.id)
    IN  IF ~lesson.exists
        THEN Respond(r, 404, "Lesson not found")
        ELSE Await([r EXCEPT !.read = lesson.space,
                             !.newSpace = NewSpace(lesson.space, r.body.change)],
                   "update", "lessons.updateOne")

SpaceFind(c) ==
    /\ req[c].op = "space" /\ req[c].pc = "find"
    /\ \/ req' = [req EXCEPT ![c] = SpaceFound(@)]
       \/ req' = [req EXCEPT ![c] = Reject(@, "Failed to update lesson space")]
    /\ UNCHANGED <<lessons, orders, now, files, server, script>>

\* updateOne({_id}, {$set: {space: newSpace}}) on the lessons collection.
SetSpace(id, newSpace) ==
    IF lessons[id].exists THEN [lessons EXCEPT ![id].space = newSpace] ELSE lessons

\* The updateOne resolves; the handler issues the findOne of the lesson.
SpaceUpdate(c) ==
    /\ req[c].op = "space" /\ req[c].pc = "update"
    /\ \/ /\ lessons' = SetSpace(req[c].id, req[c].newSpace)
          /\ req' = [req EXCEPT ![c] = Await(@, "fetch", "lessons.findOne")]
       \/ /\ req' = [req EXCEPT ![c] = Reject(@, "Failed to update lesson space")]
          /\ UNCHANGED lessons
    /\ UNCHANGED <<orders, now, files, server, script>>

\* The findOne resolves; the handler answers with the lesson as it is now.
SpaceFetch(c) ==
    /\ req[c].op = "space" /\ req[c].pc = "fetch"
    /\ \/ req' = [req EXCEPT ![c] =
                [Respond(@, 200, "") EXCEPT !.lesson = FindOneLesson(req[c].id)]]
       \/ req' = [req EXCEPT ![c] = Reject(@, "Failed to update lesson space")]
    /\ UNCHANGED <<lessons, orders, now, files, server, script>>

\* ------------------------------------------------ POST /api/lessons
\* The lessons created through the API so far.
LessonsCreated == Cardinality({i \in 1..Len(FreshIds) : lessons[FreshIds[i]].exists})

\* Lesson creations in flight that may still insert.
LessonsInFlight ==
    Cardinality({c \in Clients : req[c].op = "create" /\ req[c].pc = "insert"})

\* The checks of the handler before its store call: "missing", "throw" when
\* topic.trim() or location.trim() throws, or "ok".
LessonCheck(b) ==
    IF \/ ~Truthy(b.topic) \/ ~Truthy(b.location)
       \/ b.price = Undefined \/ b.space = Undefined
    THEN "missing"
    ELSE IF ~CanTrim(b.topic) \/ ~CanTrim(b.location)
    THEN "throw"
    ELSE "ok"

\* NewLesson taking the space from the price.
NewLessonSpaceOfPrice(b) ==
    [_id |-> "", exists |-> TRUE, topic |-> Trim(b.topic.s),
     price |-> ParseFloat(b.price), location |-> Trim(b.location.s),
     space |-> ParseInt(b.price), createdAt |-> now]

\* The newLesson document built from the body.
NewLesson(b) ==
    [_id |-> "", exists |-> TRUE, topic |-> Trim(b.topic.s),
     price |-> ParseFloat(b.price), location |-> Trim(b.location.s),
     space |-> ParseInt(b.space), createdAt |-> now]

\* The request arrives and the handler runs to its first await.  A client
\* sends none once MaxLessons lessons were created or are about to be.
PostLesson(c, b) ==
    /\ Listening /\ req[c].pc = "idle"
    /\ LessonsCreated + LessonsInFlight < MaxLessons
    /\ LET r == Logger([Idle EXCEPT !.op = "create", !.method = "POST",
                                     !.path = <<"api", "lessons">>, !.body = b])
           check == LessonCheck(b)
       IN  req' = [req EXCEPT ![c] =
                CASE check = "missing" ->
                        Respond(r, 400, "Missing required fields: topic, location, price, space")
                  [] check = "throw" -> Catch(r, "Failed to create lesson")
                  [] OTHER -> Await([r EXCEPT !.newLesson = NewLesson(b)],
                                    "insert", "lessons.insertOne")]
    /\ UNCHANGED <<lessons, orders, now, files, server, script>>

\* The identifier the store gives the next lesson it inserts.
NextFreshId ==
    FreshIds[CHOOSE i \in 1..Len(FreshIds) :
                /\ ~lessons[FreshIds[i]].exists
                /\ \A j \in 1..(i - 1) : lessons[FreshIds[j]].exists]

\* The insertOne resolves; the handler issues the findOne of the new lesson.
LessonInsert(c) ==
    /\ req[c].op = "create" /\ req[c].pc = "insert"
    /\ \/ /\ lessons' = [lessons EXCEPT ![NextFreshId] =
                            [req[c].newLesson EXCEPT !._id = NextFreshId]]
          /\ req' = [req EXCEPT ![c] =
                Await([@ EXCEPT !.lessonId = NextFreshId], "fetch", "lessons.findOne")]
       \/ /\ req' = [req EXCEPT ![c] = Reject(@, "Failed to create lesson")]
          /\ UNCHANGED lessons
    /\ UNCHANGED <<orders, now, files, server, script>>

\* The findOne resolves; the handler answers 201 with the lesson.
LessonFetch(c) ==
    /\ req[c].op = "create" /\ req[c].pc = "fetch"
    /\ \/ req' = [req EXCEPT ![c] =
                [Respond(@, 201, "") EXCEPT !.lesson = FindOneLesson(req[c].lessonId)]]
       \/ req' = [req EXCEPT ![c] = Reject(@, "Failed to create lesson")]
    /\ UNCHANGED <<lessons, orders, now, files, server, script>>

\* ------------------------------------------------- the other routes
\* The route table, in the order of registration: the handler of the first
\* route that matches the method and the path (the sequence of its
\* segments), or "none".
Route(method, path) ==
    CASE method = "GET" /\ path = <<>> -> "root"
      [] method = "GET" /\ path = <<"api", "lessons">> -> "lessons"
      [] method = "GET" /\ Len(path) = 3 /\ SubSeq(path, 1, 2) = <<"api", "lessons">>
            -> "lesson"
      [] method = "POST" /\ path = <<"api", "lessons">> -> "create"
      [] method = "PUT" /\ Len(path) = 4 /\ SubSeq(path, 1, 2) = <<"api", "lessons">>
                       /\ path[4] = "space" -> "space"
      [] method = "GET" /\ path = <<"api", "orders">> -> "orders"
      [] method = "POST" /\ path = <<"api", "orders">> -> "order"
      [] method = "GET" /\ Len(path) = 3 /\ SubSeq(path, 1, 2) = <<"api", "orders">>
            -> "getOrder"
      [] method = "GET" /\ Len(path) = 4
                       /\ SubSeq(path, 1, 3) = <<"api", "lessons", "search">> -> "search"
      [] OTHER -> "none"

\* A request without a body arrives with its headers; the logger runs and
\* the handler of its route runs to its first await, or to its response.
RequestWith(c, method, path, headers) ==
    /\ Listening /\ req[c].pc = "idle"
    /\ LET op == Route(method, path)
           r == Logger([Idle EXCEPT !.op = op, !.method = method, !.path = path,
                                    !.headers = headers])
       IN  /\ op \in {"root", "lessons", "lesson", "orders", "getOrder", "search", "none"}
           /\ req' = [req EXCEPT ![c] =
                CASE op = "root" ->
                        [Respond(r, 200, "") EXCEPT !.keys = {"message", "version", "endpoints"}]
                  [] op = "lessons" -> Await(r, "find", "lessons.find")
                  [] op = "lesson" ->
                        IF ObjectIdOk(path[3])
                        THEN Await([r EXCEPT !.id = path[3]], "find", "lessons.findOne")
                        ELSE Catch(r, "Failed to fetch lesson")
                  [] op = "orders" -> Await(r, "find", "orders.find")
                  [] op = "getOrder" ->
                        IF ObjectIdOk(path[3])
                        THEN Await([r EXCEPT !.id = path[3]], "find", "orders.findOne")
                        ELSE Catch(r, "Failed to fetch order")
                  [] op = "search" -> Await([r EXCEPT !.id = path[4]], "find", "lessons.find")
                  [] OTHER -> Respond(r, 404, "Route not found")]
    /\ UNCHANGED <<lessons, orders, now, files, server, script>>

\* A request without a body and without the headers of the model.
Request(c, method, path) == RequestWith(c, method, path, NoHeaders)

\* db.collection('lessons').find({}).toArray()
FindAllLessons == FindLessons(StoreOrder)

\* GET /api/lessons: the find resolves.
LessonsFind(c) ==
    /\ req[c].op = "lessons" /\ req[c].pc = "find"
    /\ \/ req' = [req EXCEPT ![c] =
                [Respond(@, 200, "") EXCEPT !.lessonList = FindAllLessons]]
       \/ req' = [req EXCEPT ![c] = Reject(@, "Failed to fetch lessons")]
    /\ UNCHANGED <<lessons, orders, now, files, server, script>>

\* The lesson found, or 404 when there is none.
LessonGot(r) ==
    LET lesson == FindOneLesson(r.id)
    IN  IF ~lesson.exists
        THEN Respond(r, 404, "Lesson not found")
        ELSE [Respond(r, 200, "") EXCEPT !.lesson = lesson]

\* GET /api/lessons/:id: the findOne resolves.
LessonFind(c) ==
    /\ req[c].op = "lesson" /\ req[c].pc = "find"
    /\ \/ req' = [req EXCEPT ![c] = LessonGot(@)]
       \/ req' = [req EXCEPT ![c] = Reject(@, "Failed to fetch lesson")]
    /\ UNCHANGED <<lessons, orders, now, files, server, script>>

\* The permutations of 1..n.
Perms(n) == {p \in [1..n -> 1..n] : \A i, j \in 1..n : p[i] = p[j] => i = j}

\* SortedOrders with the sort left out: the orders as they were inserted.
SortedOrdersUnsorted == {orders}

\* find({}).sort({orderDate: -1}).toArray(): the orders, later dates first;
\* the store returns orders of the same date in any order.
SortedOrders ==
    {[i \in 1..Len(orders) |-> orders[p[i]]] : p \in
        {q \in Perms(Len(orders)) :
            \A i, j \in 1..Len(orders) :
                i < j => orders[q[i]].orderDate >= orders[q[j]].orderDate}}

\* GET /api/orders: the find resolves.
OrdersFind(c) ==
    /\ req[c].op = "orders" /\ req[c].pc = "find"
    /\ \/ \E list \in SortedOrders :
            req' = [req EXCEPT ![c] = [Respond(@, 200, "") EXCEPT !.orderList = list]]
       \/ req' = [req EXCEPT ![c] = Reject(@, "Failed to fetch orders")]
    /\ UNCHANGED <<lessons, orders, now, files, server, script>>

\* db.collection('orders').findOne({_id: new ObjectId(id)}) for the
\* identifier as the client writes it.
FindOrderByKey(id) ==
    IF \E i \in 1..Len(orders) : OrderKeys[i] = id
    THEN orders[CHOOSE i \in 1..Len(orders) : OrderKeys[i] = id]
    ELSE NoOrder

\* OrderGet without the return after the 404: the handler goes on to
\* res.json(order).
OrderGetNoReturn(c) ==
    /\ req[c].op = "getOrder" /\ req[c].pc = "find"
    /\ \/ req' = [req EXCEPT ![c] =
                IF FindOrderByKey(req[c].id) = NoOrder
                THEN Respond(Respond(@, 404, "Order not found"), 200, "")
                ELSE [Respond(@, 200, "") EXCEPT !.order = FindOrderByKey(req[c].id)]]
       \/ req' = [req EXCEPT ![c] = Reject(@, "Failed to fetch order")]
    /\ UNCHANGED <<lessons, orders, now, files, server, script>>

\* GET /api/orders/:id: the findOne resolves.
OrderGet(c) ==
    /\ req[c].op = "getOrder" /\ req[c].pc = "find"
    /\ \/ req' = [req EXCEPT ![c] =
                IF FindOrderByKey(req[c].id) = NoOrder
                THEN Respond(@, 404, "Order not found")
                ELSE [Respond(@, 200, "") EXCEPT !.order = FindOrderByKey(req[c].id)]]
       \/ req' = [req EXCEPT ![c] = Reject(@, "Failed to fetch order")]
    /\ UNCHANGED <<lessons, orders, now, files, server, script>>

\* PUT /api/lessons/:id/availability with a body {change} arrives: the
\* logger runs, no route matches the path and the 404 handler answers.
PutAvailability(c, id, change) ==
    /\ Listening /\ req[c].pc = "idle"
    /\ LET path == <<"api", "lessons", id, "availability">>
           r == Logger([Idle EXCEPT !.op = Route("PUT", path), !.method = "PUT",
                                    !.path = path, !.body.change = change])
       IN  /\ r.op = "none"
           /\ req' = [req EXCEPT ![c] = Respond(r, 404, "Route not found")]
    /\ UNCHANGED <<lessons, orders, now, files, server, script>>

\* A word in lower case (the words of the model).
Lower(word) ==
    CASE word \in {"Mathematics", "MATHEMATICS"} -> "mathematics"
      [] word \in {"London", "LONDON"} -> "london"
      [] word = "Physics" -> "physics"
      [] word = "Birmingham" -> "birmingham"
      [] word = "Art" -> "art"
      [] word = "York" -> "york"
      [] OTHER -> word

\* Whether the store accepts a query as a regular expression.
RegexOk(query) == query # "("

\* {$regex: query, $options: 'i'} on a string: "." matches every string
\* that is not empty, a word matches the strings that hold it, whatever
\* the case.
RegexMatches(query, text) ==
    IF query = "." THEN text # <<>>
    ELSE \E i \in 1..Len(text) : Lower(text[i]) = Lower(query)

\* find({$or: [{topic: {$regex}}, {location: {$regex}}]}).toArray()
SearchLessons(query) ==
    LET hit(l) == /\ lessons[l].exists
                  /\ \/ RegexMatches(query, lessons[l].topic)
                     \/ RegexMatches(query, lessons[l].location)
        RECURSIVE Pick(_)
        Pick(k) == IF k > Len(StoreOrder) THEN <<>>
                   ELSE (IF hit(StoreOrder[k]) THEN <<lessons[StoreOrder[k]]>>
                         ELSE <<>>) \o Pick(k + 1)
    IN  Pick(1)

\* GET /api/lessons/search/:query: the find resolves, or rejects, as it
\* does for a query that is no regular expression.
SearchFind(c) ==
    /\ req[c].op = "search" /\ req[c].pc = "find"
    /\ \/ /\ RegexOk(req[c].id)
          /\ req' = [req EXCEPT ![c] =
                [Respond(@, 200, "") EXCEPT !.lessonList = SearchLessons(req[c].id)]]
       \/ req' = [req EXCEPT ![c] = Reject(@, "Failed to search lessons")]
    /\ UNCHANGED <<lessons, orders, now, files, server, script>>

\* An OPTIONS request arrives: cors() answers the preflight with 204 and
\* ends the response without calling the next middleware.
Preflight(c, path) ==
    /\ Listening /\ req[c].pc = "idle"
    /\ req' = [req EXCEPT ![c] =
            [Idle EXCEPT !.op = "preflight", !.method = "OPTIONS", !.path = path,
                         !.pc = "done", !.status = 204, !.sent = 1]]
    /\ UNCHANGED <<lessons, orders, now, files, server, script>>

\* express.json() cannot parse the body: the error skips every route and
\* reaches the error-handling middleware, which answers 500.
Unparsable(c, method, path) ==
    /\ Listening /\ req[c].pc = "idle"
    /\ req' = [req EXCEPT ![c] =
            Respond([Idle EXCEPT !.op = "unparsable", !.method = method, !.path = path],
                    500, "Something went wrong!")]
    /\ UNCHANGED <<lessons, orders, now, files, server, script>>

\* The files createSampleImages.js writes, in the order it writes them.
SampleImages ==
    <<"mathematics.svg", "english.svg", "science.svg", "history.svg",
      "geography.svg", "test.jpg">>

\* createSampleImages.js writes its next file; a run that finds the files
\* there overwrites them.
WriteSampleImage ==
    /\ Cardinality(files) < Len(SampleImages)
    /\ files' = files \cup {SampleImages[Cardinality(files) + 1]}
    /\ UNCHANGED <<lessons, orders, req, now, server, script>>

\* The clock advances.
Tick ==
    /\ now < MaxClock
    /\ now' = now + 1
    /\ UNCHANGED <<lessons, orders, req, files, server, script>>

\* ------------------------------------- the lesson insertion script
\* sampleLessons, scaled to the model: the first and the third of the ten,
\* with the space of the seeded collection.
SampleLessons ==
    <<[topic |-> <<"Mathematics">>, price |-> Whole(25), location |-> <<"London">>,
       space |-> Whole(1)],
      [topic |-> <<"Physics">>, price |-> Whole(35), location |-> <<"Birmingham">>,
       space |-> Whole(1)]>>

\* validateLessonData: every lesson has a positive price and space and a
\* topic and a location that are not blank.
ValidateLessonData(samples) ==
    \A i \in 1..Len(samples) :
        /\ samples[i].price.t = "number" /\ samples[i].price.n > 0
        /\ samples[i].space.t = "number" /\ samples[i].space.n > 0
        /\ Trim(samples[i].topic) # <<>> /\ Trim(samples[i].location) # <<>>

\* collection.countDocuments()
CountDocuments == Cardinality({l \in StoreIds : lessons[l].exists})

\* The identifiers the store has not given to a lesson yet.
FreeIds == {i \in 1..Len(FreshIds) : ~lessons[FreshIds[i]].exists}

\* main: the script is run.  It validates sampleLessons and calls
\* insertLessons, which runs to its first await, client.connect().  It is
\* run while the store has identifiers left for its lessons.
ScriptStart ==
    /\ script.pc \in {"off", "finished", "failed"}
    /\ Cardinality(FreeIds) >= Len(SampleLessons)
    /\ script' = IF ValidateLessonData(SampleLessons)
                 THEN [ScriptOff EXCEPT !.pc = "connect"]
                 ELSE [ScriptOff EXCEPT !.pc = "failed"]
    /\ UNCHANGED <<lessons, orders, req, now, files, server>>

\* An awaited call of the script rejects: the catch logs the error and
\* exits the process with code 1.
ScriptFails ==
    /\ script.pc \in {"connect", "count", "insert", "recount", "index", "sample", "stats"}
    /\ script' = [script EXCEPT !.pc = "failed"]
    /\ UNCHANGED <<lessons, orders, req, now, files, server>>

\* client.connect() resolves; the script counts the documents.
ScriptConnect ==
    /\ script.pc = "connect"
    /\ script' = [script EXCEPT !.pc = "count"]
    /\ UNCHANGED <<lessons, orders, req, now, files, server>>

\* countDocuments() resolves: whatever the count, the script goes on to
\* insertMany(sampleLessons).
ScriptCount ==
    /\ script.pc = "count"
    /\ script' = [script EXCEPT !.pc = "insert", !.existingCount = CountDocuments]
    /\ UNCHANGED <<lessons, orders, req, now, files, server>>

\* insertMany(sampleLessons): the store inserts the next sample lesson
\* under a new identifier; once all are in, the call resolves.
ScriptInsert ==
    /\ script.pc = "insert"
    /\ IF script.insertedCount < Len(SampleLessons)
       THEN LET sample == SampleLessons[script.insertedCount + 1]
            IN  /\ lessons' = [lessons EXCEPT ![NextFreshId] =
                        [_id |-> NextFreshId, exists |-> TRUE, topic |-> sample.topic,
                         price |-> sample.price, location |-> sample.location,
                         space |-> sample.space, createdAt |-> now]]
                /\ script' = [script EXCEPT !.insertedCount = @ + 1]
       ELSE /\ script' = [script EXCEPT !.pc = "recount"]
            /\ UNCHANGED lessons
    /\ UNCHANGED <<orders, req, now, files, server>>

\* The second countDocuments() resolves.
ScriptRecount ==
    /\ script.pc = "recount"
    /\ script' = [script EXCEPT !.pc = "index", !.totalCount = CountDocuments]
    /\ UNCHANGED <<lessons, orders, req, now, files, server>>

\* The createIndex calls, the find({}).limit(5) and the aggregate resolve
\* one after the other (none changes a document), and the finally block
\* closes the connection.
ScriptReport ==
    /\ script.pc \in {"index", "sample", "stats"}
    /\ script' = [script EXCEPT !.pc =
            CASE script.pc = "index" -> "sample"
              [] script.pc = "sample" -> "stats"
              [] OTHER -> "finished"]
    /\ UNCHANGED <<lessons, orders, req, now, files, server>>

\* ---------------------------------------------------- server start
\* The process has started: connectToDatabase() awaits client.connect(),
\* db is not set and nothing listens.
Connecting == [phase |-> "connecting", db |-> FALSE]

InitStart ==
    /\ lessons = InitLessons
    /\ orders = <<>>
    /\ req = [c \in Clients |-> Idle]
    /\ now = 0
    /\ files = {}
    /\ server = Connecting
    /\ script = ScriptOff

\* client.connect() resolves: db is set and connectToDatabase() returns.
ConnectResolves ==
    /\ server.phase = "connecting"
    /\ server' = [phase |-> "connected", db |-> TRUE]
    /\ UNCHANGED <<lessons, orders, req, now, files, script>>

\* client.connect() rejects: the catch logs the error and exits the
\* process with code 1.
ConnectRejects ==
    /\ server.phase = "connecting"
    /\ server' = [server EXCEPT !.phase = "exited"]
    /\ UNCHANGED <<lessons, orders, req, now, files, script>>

\* Listen without waiting for connectToDatabase().
ListenAtOnce ==
    /\ server.phase \in {"connecting", "connected"}
    /\ server' = [server EXCEPT !.phase = "listening"]
    /\ UNCHANGED <<lessons, orders, req, now, files, script>>

\* The then-callback of connectToDatabase() runs: app.listen(PORT).
Listen ==
    /\ server.phase = "connected"
    /\ server' = [server EXCEPT !.phase = "listening"]
    /\ UNCHANGED <<lessons, orders, req, now, files, script>>

\* ------------------------------------------------ what clients send
RECURSIVE SeqsUpTo(_, _)
SeqsUpTo(S, n) ==
    IF n = 0 THEN {<<>>}
    ELSE LET shorter == SeqsUpTo(S, n - 1)
         IN  shorter \cup {Append(s, x) : s \in {t \in shorter : Len(t) = n - 1}, x \in S}

John == Str(<<"J">>)
Phone == Str(<<"7">>)

\* Every lessonIDs value: absent, a scalar, and the arrays of identifiers.
LessonIDsValues ==
    {Undefined, Str(<<"L">>)} \cup {Arr(s) : s \in SeqsUpTo(IdValues, MaxIds)}

\* Every numberOfSpaces value: absent, a string, and -1, 0, 0.5, 2, 2.5.
SpacesValues ==
    {Undefined, Str(<<"2">>)} \cup {Number(h) : h \in {0 - 2, 0, 1, 4, 5}}

\* The order bodies of a client that varies every required field.
OrderBodies ==
    {[NoBody EXCEPT !.name = n, !.phoneNumber = p, !.lessonIDs = l, !.numberOfSpaces = s] :
        n \in {Undefined, John}, p \in {Undefined, Phone},
        l \in LessonIDsValues, s \in SpacesValues}

\* The order bodies of concurrent clients: valid but for the lessons named.
SomeOrderBodies ==
    {[NoBody EXCEPT !.name = John, !.phoneNumber = Phone, !.lessonIDs = Arr(l),
                    !.numberOfSpaces = Whole(2)] :
        l \in {<<"L1">>, <<"L1", "L2">>, <<"L3">>}}

\* Every name or phoneNumber value: a string (plain, empty, blank, padded)
\* and values that are no strings.
ContactValues(plain) ==
    {plain, Str(<<>>), Str(<<" ">>), Str(<<" ">> \o plain.s \o <<" ">>), Whole(5), Null}

\* The order bodies of a client that sends malformed fields: every contact
\* value, email and notes that are no strings, lessonIDs that is a scalar,
\* empty or names a malformed identifier, numberOfSpaces that is no number
\* or not positive.
FieldBodies ==
    {[NoBody EXCEPT !.name = n, !.phoneNumber = p, !.email = e, !.notes = o,
                    !.lessonIDs = l, !.numberOfSpaces = s] :
        n \in ContactValues(John), p \in ContactValues(Phone),
        e \in {Undefined, Str(<<"e">>), Whole(1)}, o \in {Undefined, Whole(1)},
        l \in {Arr(<<"L1">>), Arr(<<>>), Str(<<"L">>), Arr(<<"bad">>)},
        s \in {Whole(2), Str(<<"2">>), Whole(0 - 1)}}

\* The change values of seat adjustments: absent, no number, and the deltas.
ChangeValues ==
    {Undefined, Str(<<"x">>)} \cup {Whole(d) : d \in (0 - MaxDelta)..MaxDelta}

\* The lesson identifiers of seat adjustments.
SpaceTargets == {"L1", "L3", "bad"}

\* ------------------------------------------- one client, order bodies
NextOrders ==
    \/ \E b \in OrderBodies : PostOrder("c1", b, MaxSoloOrders)
    \/ OrderFind("c1")
    \/ OrderInsert("c1")
    \/ OrderFetch("c1")
    \/ Ack("c1")

SpecOrders == Init /\ [][NextOrders]_vars

\* The lesson of the spec's scenario: Art in York, price 10, space 5.
Art ==
    [NoBody EXCEPT !.topic = Str(<<"Art">>), !.location = Str(<<"York">>),
                   !.price = Whole(10), !.space = Whole(5)]

\* The lesson bodies of a client that varies every field: absent, of the
\* documented type, and of another type or out of range.
LessonBodies ==
    {[NoBody EXCEPT !.topic = t, !.location = l, !.price = p, !.space = s] :
        t \in {Undefined, Str(<<"Art">>), Whole(5)},
        l \in {Undefined, Str(<<"York">>)},
        p \in {Undefined, Whole(10), Whole(0 - 5), Null},
        s \in {Undefined, Whole(5), Whole(0), Number(5), Str(<<"x">>)}}

\* The change values sent for a lesson created through the API.
LessonChanges == {Whole(0 - 1), Whole(1), Str(<<"x">>)}

\* The order bodies sent while every route is in use: one lesson, or two.
ApiOrderBodies ==
    {[NoBody EXCEPT !.name = John, !.phoneNumber = Phone, !.lessonIDs = Arr(l),
                    !.numberOfSpaces = Whole(2)] :
        l \in {<<"L1">>, <<"L1", "L2">>}}

\* The seat adjustment sent while every route is in use: one seat taken.
ApiChanges == {Whole(0 - 1)}

\* The requests without a body sent while orders are created: one of each
\* GET route, and one of no route.
SomePaths ==
    {<<"api", "lessons">>, <<"api", "lessons", "L1">>, <<"api", "orders">>,
     <<"api", "orders", "O1">>, <<"api", "lessons", "search", "london">>,
     <<"api", "unknown">>}

\* The image files clients ask for: two that createSampleImages.js writes
\* and one that is never there.
ImageNames == {"mathematics.svg", "test.jpg", "nonexistent.jpg"}

\* The paths of requests without a body: every GET route, with identifiers
\* of a seeded lesson, of no lesson, of the first lesson created, of the
\* first order and malformed ones; a path of no route; the image paths.
RoutePaths ==
    {<<>>, <<"api", "lessons">>, <<"api", "orders">>, <<"api", "unknown">>}
        \cup {<<"api", "lessons", id>> : id \in {"L1", "L3", "L4", "bad"}}
        \cup {<<"api", "orders", id>> : id \in {"O1", "bad"}}
        \cup {<<"images", "lessons", f>> : f \in ImageNames}

\* --------------------------------------- one client, malformed input
\* The paths with an identifier, well formed or not.
IdPaths ==
    {<<"api", "lessons", id>> : id \in {"L1", "bad"}}
        \cup {<<"api", "orders", id>> : id \in {"O1", "bad"}}

\* The routes that take a JSON body.
BodyRoutes ==
    {<<"POST", <<"api", "orders">>>>, <<"POST", <<"api", "lessons">>>>,
     <<"PUT", <<"api", "lessons", "L1", "space">>>>}

NextInputs ==
    \/ \E b \in FieldBodies : PostOrder("c1", b, MaxSoloOrders)
    \/ OrderFind("c1")
    \/ OrderInsert("c1")
    \/ OrderFetch("c1")
    \/ \E route \in BodyRoutes : Unparsable("c1", route[1], route[2])
    \/ \E path \in IdPaths : Request("c1", "GET", path)
    \/ LessonFind("c1")
    \/ OrderGet("c1")
    \/ \E id \in {"L1", "bad"}, change \in {Undefined, Whole(0 - 1)} :
            PutSpace("c1", id, change)
    \/ \E id \in {"L1", "bad"}, change \in {Undefined, Whole(0 - 1)} :
            PutAvailability("c1", id, change)
    \/ SpaceFind("c1")
    \/ SpaceUpdate("c1")
    \/ SpaceFetch("c1")
    \/ Ack("c1")

SpecInputs == Init /\ [][NextInputs]_vars

\* ------------------------------------- two clients, seat adjustments
NextSeats ==
    \E c \in Clients :
        \/ \E id \in SpaceTargets, change \in ChangeValues : PutSpace(c, id, change)
        \/ SpaceFind(c)
        \/ SpaceUpdate(c)
        \/ SpaceFetch(c)
        \/ Ack(c)

SpecSeats == Init /\ [][NextSeats]_vars

\* ------------------------- two clients, orders and seat adjustments
\* The seat adjustments sent while orders are created: one seat up or down.
SomeChanges == {Whole(0 - 1), Whole(1)}

Next ==
    \E c \in Clients :
        \/ \E b \in SomeOrderBodies : PostOrder(c, b, MaxOrders)
        \/ OrderFind(c)
        \/ OrderInsert(c)
        \/ OrderFetch(c)
        \/ \E change \in SomeChanges : PutSpace(c, "L1", change)
        \/ SpaceFind(c)
        \/ SpaceUpdate(c)
        \/ SpaceFetch(c)
        \/ Ack(c)

Spec == Init /\ [][Next]_vars

\* ------------------------------------------ two clients, every route
NextApi ==
    \E c \in Clients :
        \/ \E b \in ApiOrderBodies : PostOrder(c, b, MaxOrders)
        \/ OrderFind(c)
        \/ OrderInsert(c)
        \/ OrderFetch(c)
        \/ PostLesson(c, Art)
        \/ LessonInsert(c)
        \/ LessonFetch(c)
        \/ \E change \in ApiChanges : PutSpace(c, "L1", change)
        \/ SpaceFind(c)
        \/ SpaceUpdate(c)
        \/ SpaceFetch(c)
        \/ \E path \in SomePaths : Request(c, "GET", path)
        \/ LessonsFind(c)
        \/ LessonFind(c)
        \/ OrdersFind(c)
        \/ OrderGet(c)
        \/ SearchFind(c)
        \/ Unparsable(c, "POST", <<"api", "orders">>)
        \/ Ack(c)

SpecApi == Init /\ [][NextApi]_vars

\* ------------------------------- two clients, orders and their dates
\* The order body of clients that create orders at different instants.
DatedOrderBodies ==
    {[NoBody EXCEPT !.name = John, !.phoneNumber = Phone,
                    !.lessonIDs = Arr(<<"L1">>), !.numberOfSpaces = Whole(2)]}

NextDates ==
    \/ Tick
    \/ \E c \in Clients :
        \/ \E b \in DatedOrderBodies : PostOrder(c, b, MaxOrders)
        \/ OrderFind(c)
        \/ OrderInsert(c)
        \/ OrderFetch(c)
        \/ Request(c, "GET", <<"api", "orders">>)
        \/ OrdersFind(c)
        \/ Ack(c)

SpecDates == Init /\ [][NextDates]_vars

\* ------------------------- two clients, the routes without a body
NextRoutes ==
    \/ WriteSampleImage
    \/ \E c \in Clients :
        \/ \E path \in RoutePaths : Request(c, "GET", path)
        \/ LessonsFind(c)
        \/ LessonFind(c)
        \/ OrdersFind(c)
        \/ OrderGet(c)
        \/ PostLesson(c, Art)
        \/ LessonInsert(c)
        \/ LessonFetch(c)
        \/ Ack(c)

SpecRoutes == Init /\ [][NextRoutes]_vars

\* ------------- one client creates lessons, one adjusts their seats
NextLessons ==
    \/ \E b \in LessonBodies : PostLesson("c1", b)
    \/ LessonInsert("c1")
    \/ LessonFetch("c1")
    \/ \E change \in LessonChanges : PutSpace("c2", FreshIds[1], change)
    \/ SpaceFind("c2")
    \/ SpaceUpdate("c2")
    \/ SpaceFetch("c2")
    \/ \E c \in Clients : Ack(c)

SpecLessons == Init /\ [][NextLessons]_vars

\* ----------------------------------- two clients, headers and the log
\* The headers clients send: each sensitive header absent or with one of
\* its values, with or without a user agent.
SomeHeaders ==
    {[h \in HeaderNames |->
        CASE h = "authorization" -> a [] h = "cookie" -> k
          [] h = "x-api-key" -> x [] OTHER -> u] :
        a \in {Absent, "Bearer s1", "Bearer s2"}, k \in {Absent, "sid=1", "sid=2"},
        x \in {Absent, "key1"}, u \in {Absent, "curl"}}

\* The paths of the requests whose log is compared: a route and no route.
LoggedPaths == {<<"api", "lessons">>, <<"api", "unknown">>}

\* An order body that fails validation: the name is missing.
Nameless ==
    [NoBody EXCEPT !.phoneNumber = Phone, !.lessonIDs = Arr(<<"L1">>),
                   !.numberOfSpaces = Whole(2)]

NextLog ==
    \E c \in Clients :
        \/ \E path \in LoggedPaths, headers \in SomeHeaders :
                RequestWith(c, "GET", path, headers)
        \/ LessonsFind(c)
        \/ Preflight(c, <<"api", "orders">>)
        \/ Unparsable(c, "POST", <<"api", "orders">>)
        \/ PostOrder(c, Nameless, MaxOrders)
        \/ Ack(c)

SpecLog == Init /\ [][NextLog]_vars

\* -------------------- the insertion script is run again, clients read
NextSetup ==
    \/ ScriptStart
    \/ ScriptConnect
    \/ ScriptCount
    \/ ScriptInsert
    \/ ScriptRecount
    \/ ScriptReport
    \/ ScriptFails
    \/ \E c \in Clients :
        \/ Request(c, "GET", <<"api", "lessons">>)
        \/ LessonsFind(c)
        \/ Ack(c)

SpecSetup == Init /\ [][NextSetup]_vars

\* ------------------------------- the server starts, two clients read
\* The paths clients ask for once the server listens.
StartPaths ==
    {<<>>, <<"api", "lessons">>, <<"api", "lessons", "L1">>, <<"api", "lessons", "bad">>,
     <<"api", "orders">>, <<"api", "unknown">>}

NextStart ==
    \/ ConnectResolves
    \/ ConnectRejects
    \/ Listen
    \/ \E c \in Clients :
        \/ \E path \in StartPaths : Request(c, "GET", path)
        \/ LessonsFind(c)
        \/ LessonFind(c)
        \/ OrdersFind(c)
        \/ Ack(c)

SpecStart == InitStart /\ [][NextStart]_vars

\* ------------------------------------------------------------ claims
\* A finished request of the route op.
Done(c, op) == req[c].op = op /\ req[c].pc = "done"

\* Whether identifier id names a lesson of the collection.
Resolves(id) == id \in StoreIds /\ lessons[id].exists

\* p1 + ... + pN over the identifiers of a request, in request order.
RECURSIVE RequestedPrices(_)
RequestedPrices(ids) ==
    IF ids = <<>> THEN 0
    ELSE lessons[Head(ids)].price.n + RequestedPrices(Tail(ids))

\* C1: every order request answered 201 carries, in the response and in the
\* orders collection, totalPrice = (p1 + ... + pN) * numberOfSpaces, the
\* prices being those of the lessons its lessonIDs name.
C1_TotalPrice ==
    \A c \in Clients :
        (Done(c, "order") /\ req[c].status = 201) =>
            LET b == req[c].body
                expected == Number((RequestedPrices(b.lessonIDs.s) * b.numberOfSpaces.n) \div 2)
            IN  /\ req[c].order.totalPrice = expected
                /\ FindOneOrder(req[c].insertedId).totalPrice = expected

\* Mathematics (25) and Physics (35) with numberOfSpaces 2: 201, 120, pending.
C1_Witness ==
    \E c \in Clients :
        /\ Done(c, "order") /\ req[c].status = 201
        /\ req[c].body.lessonIDs.s = <<"L1", "L2">>
        /\ req[c].body.numberOfSpaces = Whole(2)
        /\ req[c].order.totalPrice = Whole(120)
        /\ req[c].order.status = "pending"

\* Whether the request names, in an array, an identifier of no lesson.
NamesUnresolved(b) ==
    /\ b.lessonIDs.t = "array"
    /\ \E i \in 1..Len(b.lessonIDs.s) : ~Resolves(b.lessonIDs.s[i])

\* C2: an order request with an identifier that resolves to no lesson is
\* answered 400 or 404 and persists no order (the store answering every
\* call of the request).
C2_UnresolvedRejected ==
    \A c \in Clients :
        (Done(c, "order") /\ ~req[c].rejected /\ NamesUnresolved(req[c].body)) =>
            /\ req[c].status \in {400, 404}
            /\ req[c].insertedId = 0

\* Whether the body lacks one of the four required fields.
LacksRequired(b) ==
    \/ b.name = Undefined \/ b.phoneNumber = Undefined
    \/ b.lessonIDs = Undefined \/ b.numberOfSpaces = Undefined

\* C3: an order request lacking name, phoneNumber, lessonIDs or
\* numberOfSpaces is answered 400 without any store call.
C3_MissingFieldNoStore ==
    \A c \in Clients :
        (Done(c, "order") /\ LacksRequired(req[c].body)) =>
            /\ req[c].status = 400
            /\ req[c].calls = <<>>
            /\ req[c].insertedId = 0

\* Only the name is missing from an otherwise valid body.
C3_Witness ==
    \E c \in Clients :
        /\ Done(c, "order") /\ req[c].status = 400
        /\ req[c].body.name = Undefined
        /\ req[c].body.phoneNumber = Phone
        /\ req[c].body.lessonIDs = Arr(<<"L1">>)
        /\ req[c].body.numberOfSpaces = Whole(2)
        /\ orders = <<>>

\* Whether the request names, in an array, a malformed identifier.
NamesMalformed(b) ==
    /\ b.lessonIDs.t = "array"
    /\ \E i \in 1..Len(b.lessonIDs.s) : ~ObjectIdOk(b.lessonIDs.s[i])

\* C9: an order request with a malformed lesson identifier is answered 400,
\* before any store call and without persisting an order.
C9_MalformedIdIs400 ==
    \A c \in Clients :
        (Done(c, "order") /\ NamesMalformed(req[c].body)) =>
            /\ req[c].status = 400
            /\ req[c].calls = <<>>
            /\ req[c].insertedId = 0

\* C10: every document of the orders collection has a numberOfSpaces that
\* is an integer greater than 0.
C10_SpacesPositiveInteger ==
    \A i \in 1..Len(orders) :
        /\ orders[i].numberOfSpaces.t = "number"
        /\ orders[i].numberOfSpaces.n % 2 = 0
        /\ orders[i].numberOfSpaces.n > 0

\* Whether a space is a number below zero.
BelowZero(x) == x.t = "number" /\ x.n < 0

\* Whether the adjustment of request r, applied to the space it read, would
\* go negative.
WouldGoNegative(r) ==
    /\ r.read.t = "number" /\ ParseInt(r.body.change).t = "number"
    /\ r.read.n + ParseInt(r.body.change).n < 0

\* C4: after any sequence of seat adjustments no lesson's stored space is
\* below zero, and an adjustment that would go negative stores 0.
C4_SpaceNeverNegative ==
    /\ [](\A l \in StoreIds : ~BelowZero(lessons[l].space))
    /\ [][\A c \in Clients :
            (/\ req[c].op = "space" /\ req[c].pc = "update" /\ req'[c].pc = "fetch"
             /\ WouldGoNegative(req[c]))
                => lessons'[req[c].id].space = Number(0)]_vars

\* An adjustment that would take the space below zero was answered 200 and
\* the lesson holds 0.
C4_Witness ==
    \E c \in Clients :
        /\ Done(c, "space") /\ req[c].status = 200
        /\ WouldGoNegative(req[c])
        /\ req[c].lesson.space = Number(0)
        /\ lessons[req[c].id].space = Number(0)

\* C5: two seat adjustments of the same lesson, both answered 200, leave the
\* space that applying the two clamped adjustments one after the other, in
\* one of the two orders, gives (the first of them reading the space before
\* both).
C5_AdjustmentsSerialize ==
    \A c1, c2 \in Clients :
        (/\ c1 # c2 /\ Done(c1, "space") /\ Done(c2, "space")
         /\ req[c1].status = 200 /\ req[c2].status = 200
         /\ req[c1].id = req[c2].id
         /\ req[c1].body.change.t = "number" /\ req[c2].body.change.t = "number")
            => LET a == req[c1]
                   b == req[c2]
                   left == lessons[a.id].space
               IN  \/ left = NewSpace(NewSpace(a.read, a.body.change), b.body.change)
                   \/ left = NewSpace(NewSpace(b.read, b.body.change), a.body.change)

\* C6: an order request is answered 201 exactly when it persisted one new
\* order, the 201 body being that order with its generated id; a request
\* answered 400 or 500 persisted nothing, store failures included.
C6_CreatedIffPersisted ==
    \A c \in Clients :
        Done(c, "order") =>
            /\ req[c].status \in {201, 400, 500}
            /\ (req[c].status = 201) <=> (req[c].insertedId # 0)
            /\ (req[c].status = 201) =>
                    /\ req[c].order._id = req[c].insertedId
                    /\ req[c].order = FindOneOrder(req[c].insertedId)

\* The write calls among the store calls of a request.
Writes(calls) ==
    SelectSeq(calls, LAMBDA x : x \in {"orders.insertOne", "lessons.updateOne", "lessons.insertOne"})

\* A step of an order request of client c: its arrival, a piece of its
\* handler, or its response being collected.
OrderStep(c) == req'[c] # req[c] /\ (req[c].op = "order" \/ req'[c].op = "order")

\* C7: no step of an order creation changes the lessons collection, and an
\* order request answered 201 made exactly one write, to the orders
\* collection; any other order request made none.
C7_OrdersNeverWriteLessons ==
    /\ [][(\E c \in Clients : OrderStep(c)) => lessons' = lessons]_vars
    /\ [](\A c \in Clients :
            Done(c, "order") =>
                /\ req[c].status = 201 => Writes(req[c].calls) = <<"orders.insertOne">>
                /\ \A i \in 1..Len(req[c].calls) : req[c].calls[i] # "lessons.updateOne")

\* An order was created while a seat adjustment had changed a lesson: the
\* lessons collection is what the adjustment left.
C7_Witness ==
    \E c, d \in Clients :
        /\ Done(c, "order") /\ req[c].status = 201
        /\ Done(d, "space") /\ req[d].status = 200
        /\ lessons["L1"].space = req[d].newSpace
        /\ lessons["L1"].space # InitLessons["L1"].space

\* A payload valid in every field, naming distinct existing lessons.
ValidPayload(b) ==
    /\ b.name.t = "string" /\ Trim(b.name.s) # <<>>
    /\ b.phoneNumber.t = "string" /\ Trim(b.phoneNumber.s) # <<>>
    /\ b.email.t \in {"undefined", "string"}
    /\ b.notes.t \in {"undefined", "string"}
    /\ b.numberOfSpaces.t = "number" /\ b.numberOfSpaces.n > 0
    /\ b.lessonIDs.t = "array" /\ b.lessonIDs.s # <<>>
    /\ \A i \in 1..Len(b.lessonIDs.s) : Resolves(b.lessonIDs.s[i])
    /\ \A i, j \in 1..Len(b.lessonIDs.s) : b.lessonIDs.s[i] = b.lessonIDs.s[j] => i = j

\* C8: seat availability is never enforced: every order request with a valid
\* payload is answered 201 whatever the space of its lessons (the store
\* answering every call of the request).
C8_NoSeatEnforcement ==
    \A c \in Clients :
        (Done(c, "order") /\ ValidPayload(req[c].body) /\ ~req[c].rejected)
            => req[c].status = 201

\* Two concurrent orders of the same lesson both succeeded, booking together
\* more seats than the lesson has.
C8_Witness ==
    \E c1, c2 \in Clients :
        /\ c1 # c2
        /\ Done(c1, "order") /\ req[c1].status = 201
        /\ Done(c2, "order") /\ req[c2].status = 201
        /\ "L1" \in Range(req[c1].body.lessonIDs.s)
        /\ "L1" \in Range(req[c2].body.lessonIDs.s)
        /\ lessons["L1"].space.t = "number"
        /\ req[c1].order.numberOfSpaces.n + req[c2].order.numberOfSpaces.n
                > lessons["L1"].space.n

\* Whether a contact field is not a string with a character that is no blank.
NoContact(x) == x.t # "string" \/ Trim(x.s) = <<>>

\* C11: every document of the orders collection has a name and a phoneNumber
\* that are non-empty strings: an order request whose name or phoneNumber is
\* empty, blank or no string is answered 400 and persists nothing.
C11_ContactsNonEmpty ==
    /\ \A i \in 1..Len(orders) : orders[i].name # <<>> /\ orders[i].phoneNumber # <<>>
    /\ \A c \in Clients :
            (Done(c, "order") /\ (NoContact(req[c].body.name) \/ NoContact(req[c].body.phoneNumber)))
                => req[c].status = 400 /\ req[c].insertedId = 0

\* C12: once an order is persisted, no operation of the API changes or
\* removes it: every step leaves each document of the orders collection as
\* it is (its lessonDetails and totalPrice included), and its status is
\* 'pending' in every state.
C12_OrdersImmutable ==
    /\ [][\A i \in 1..Len(orders) :
            IF i > Len(orders') THEN FALSE ELSE orders'[i] = orders[i]]_vars
    /\ [](\A i \in 1..Len(orders) : orders[i].status = "pending")

\* Both clients adjusted the seats of Mathematics after the last order that
\* names it was persisted, a lesson was created, and the orders are there
\* with the snapshot and the total of their creation.
C12_Witness ==
    /\ Len(orders) = MaxOrders
    /\ \A c \in Clients :
            /\ Done(c, "space") /\ req[c].status = 200
            /\ lessons["L1"].space # InitLessons["L1"].space
    /\ LessonsCreated > 0
    /\ \A i \in 1..Len(orders) :
            /\ orders[i].lessonIDs[1] = "L1"
            /\ orders[i].lessonDetails[1].price = Whole(25)
            /\ orders[i].status = "pending"

\* C13: a seat adjustment naming no existing lesson is answered 404, one
\* without a change value is answered 400, and neither writes to the store
\* (the store answering every call of the request).
C13_SpaceNotFound ==
    \A c \in Clients :
        (Done(c, "space") /\ ~req[c].rejected) =>
            /\ req[c].body.change = Undefined =>
                    req[c].status = 400 /\ req[c].calls = <<>>
            /\ (req[c].body.change # Undefined /\ ~Resolves(req[c].id)) =>
                    req[c].status = 404 /\ Writes(req[c].calls) = <<>>

\* C14: the list GET /api/orders answers with holds the orders persisted
\* when the store answers, each once, and of any two orders of the list the
\* one with the greater orderDate comes first.
C14_NewestFirst ==
    /\ [](\A c \in Clients :
            (Done(c, "orders") /\ req[c].status = 200) =>
                \A i, j \in 1..Len(req[c].orderList) :
                    req[c].orderList[i].orderDate > req[c].orderList[j].orderDate
                        => i < j)
    /\ [][\A c \in Clients :
            (/\ req[c].op = "orders" /\ req[c].pc = "find"
             /\ req'[c].pc = "done" /\ req'[c].status = 200)
                => /\ Len(req'[c].orderList) = Len(orders)
                   /\ Range(req'[c].orderList) = Range(orders)]_vars

\* The list holds two orders, the later one first though it was inserted
\* second.
C14_Witness ==
    \E c \in Clients :
        /\ Done(c, "orders") /\ req[c].status = 200
        /\ Len(req[c].orderList) = 2
        /\ req[c].orderList[1].orderDate > req[c].orderList[2].orderDate
        /\ req[c].orderList[1]._id > req[c].orderList[2]._id

\* C15: GET /api/lessons/:id is answered 200 with the lesson of that id or
\* 404, and 404 for every id that names no lesson, a malformed one included
\* (the store answering every call of the request).
C15_LessonOr404 ==
    \A c \in Clients :
        (Done(c, "lesson") /\ ~req[c].rejected) =>
            /\ req[c].status \in {200, 404}
            /\ req[c].status = 200 => req[c].lesson.exists /\ req[c].lesson._id = req[c].path[3]
            /\ ~Resolves(req[c].path[3]) => req[c].status = 404

\* Whether a lesson body lacks one of the four required fields.
LacksLessonField(b) ==
    \/ b.topic = Undefined \/ b.location = Undefined
    \/ b.price = Undefined \/ b.space = Undefined

\* Whether the four fields are there with values of the lesson's types: two
\* strings that are not empty, a number, a whole number.
LessonFieldsTyped(b) ==
    /\ b.topic.t = "string" /\ b.topic.s # <<>>
    /\ b.location.t = "string" /\ b.location.s # <<>>
    /\ b.price.t = "number"
    /\ b.space.t = "number" /\ b.space.n % 2 = 0

C17_LessonInvariant ==
    \A l \in StoreIds :
        lessons[l].exists =>
            /\ lessons[l].space.t = "number"
            /\ lessons[l].space.n % 2 = 0 /\ lessons[l].space.n >= 0
            /\ lessons[l].price.t = "number" /\ lessons[l].price.n > 0

\* Whether an order body is malformed in one of its fields: a name,
\* phoneNumber, email or notes that is no string, a lessonIDs that is no
\* array or an empty one, a numberOfSpaces that is no number or not positive.
MalformedBody(b) ==
    \/ b.name.t # "string" \/ b.phoneNumber.t # "string"
    \/ b.email.t \notin {"undefined", "string"}
    \/ b.notes.t \notin {"undefined", "string"}
    \/ b.lessonIDs.t # "array" \/ b.lessonIDs.s = <<>>
    \/ b.numberOfSpaces.t # "number" \/ b.numberOfSpaces.n <= 0

\* Whether a request carries malformed or missing input: an order with a
\* malformed body, a body that is no JSON, an identifier in the path that
\* is not well formed.
MalformedInput(r) ==
    \/ r.op = "order" /\ MalformedBody(r.body)
    \/ r.op = "unparsable"
    \/ r.op \in {"lesson", "getOrder"} /\ ~ObjectIdOk(r.path[3])
    \/ r.op = "space" /\ ~ObjectIdOk(r.path[3])

\* C18: every request with malformed or missing input is answered with a
\* status of the 400 class, never with 500.
C18_MalformedNever500 ==
    \A c \in Clients :
        (req[c].pc = "done" /\ ~req[c].rejected /\ MalformedInput(req[c]))
            => req[c].status >= 400 /\ req[c].status < 500

\* Whether a path is that of a lesson image.
ImagePath(path) == Len(path) = 3 /\ SubSeq(path, 1, 2) = <<"images", "lessons">>

\* The extension of a file name of the model.
Extension(f) == IF f \in {"test.jpg", "nonexistent.jpg"} THEN ".jpg" ELSE ".svg"

\* The Content-Type documented for an extension.
DocumentedType(ext) ==
    CASE ext \in {".jpg", ".jpeg"} -> "image/jpeg"
      [] ext = ".png" -> "image/png"
      [] ext = ".gif" -> "image/gif"
      [] ext = ".webp" -> "image/webp"
      [] OTHER -> "image/svg+xml"

\* A GET request of client c for a lesson image arrives.
ImageAsked(c) ==
    /\ req[c].pc = "idle" /\ req'[c].pc # "idle"
    /\ req'[c].method = "GET" /\ ImagePath(req'[c].path)

\* C19: a GET of a lesson image whose file is in the image directory is
\* answered 200 with the Content-Type of the file's extension and a
\* Cache-Control of 24 hours.
C19_ImageServed ==
    [][\A c \in Clients :
        (ImageAsked(c) /\ req'[c].path[3] \in files) =>
            /\ req'[c].pc = "done" /\ req'[c].status = 200
            /\ req'[c].ctype = DocumentedType(Extension(req'[c].path[3]))
            /\ req'[c].cache = "public, max-age=86400"]_vars

\* C20: a GET of a lesson image whose file is not in the image directory is
\* answered 404 with a JSON object that has requestedPath, error,
\* suggestions and supportedFormats; a request for another path is answered
\* by its route, never with that object.
C20_ImageMissing ==
    [][\A c \in Clients :
        /\ (ImageAsked(c) /\ req'[c].path[3] \notin files) =>
                /\ req'[c].pc = "done" /\ req'[c].status = 404
                /\ req'[c].ctype = "application/json"
                /\ {"requestedPath", "error", "suggestions", "supportedFormats"}
                        \subseteq req'[c].keys
        /\ (req[c].pc = "idle" /\ req'[c].pc # "idle" /\ ~ImagePath(req'[c].path)) =>
                /\ req'[c].op = Route(req'[c].method, req'[c].path)
                /\ "requestedPath" \notin req'[c].keys]_vars

\* The kinds of the log entries of a request, in the order written.
LogKinds(r) == [i \in 1..Len(r.log) |-> r.log[i].kind]

\* C21: every request the server processes has one incoming entry in the
\* log from the moment its handler runs, and one outgoing entry after it
\* once its response has ended; preflight requests, requests with a body
\* that is no JSON, unknown routes and validation failures included.
C21_EveryRequestLogged ==
    \A c \in Clients :
        /\ req[c].pc \notin {"idle", "done"} => LogKinds(req[c]) = <<"incoming">>
        /\ req[c].pc = "done" => LogKinds(req[c]) = <<"incoming", "outgoing">>

\* Whether two requests differ at most in the values of the sensitive
\* headers they have.
DifferInSensitiveOnly(a, b) ==
    /\ a.method = b.method /\ a.path = b.path /\ a.body = b.body
    /\ \A h \in HeaderNames \ SensitiveHeaders : a.headers[h] = b.headers[h]
    /\ \A h \in SensitiveHeaders : (a.headers[h] = Absent) <=> (b.headers[h] = Absent)

\* An entry of the log without its timestamp.
Untimed(e) == [e EXCEPT !.time = 0]

\* C22: no entry of the log of a request holds the value of one of its
\* sensitive headers, each such header showing as the hidden mark, and two
\* requests that differ only in the values of those headers have the same
\* incoming entry apart from the timestamp.
C22_SensitiveHidden ==
    /\ \A c \in Clients : \A i \in 1..Len(req[c].log) : \A h \in SensitiveHeaders :
            req[c].headers[h] # Absent =>
                /\ req[c].log[i].kind = "incoming" => req[c].log[i].headers[h] = Hidden
                /\ req[c].log[i].userAgent # req[c].headers[h]
                /\ \A k \in HeaderNames : req[c].log[i].headers[k] # req[c].headers[h]
    /\ \A c, d \in Clients :
            (/\ req[c].pc # "idle" /\ req[d].pc # "idle"
             /\ DifferInSensitiveOnly(req[c], req[d]))
                => /\ Len(req[c].log) > 0 <=> Len(req[d].log) > 0
                   /\ Len(req[c].log) > 0 =>
                        Untimed(req[c].log[1]) = Untimed(req[d].log[1])

\* Two logged requests differ in their authorization and cookie values,
\* and their incoming entries are the same, with both headers hidden.
C22_Witness ==
    \E c, d \in Clients :
        /\ req[c].pc = "done" /\ req[d].pc = "done"
        /\ DifferInSensitiveOnly(req[c], req[d])
        /\ req[c].headers["authorization"] = "Bearer s1"
        /\ req[d].headers["authorization"] = "Bearer s2"
        /\ req[c].headers["cookie"] = "sid=1" /\ req[d].headers["cookie"] = "sid=2"
        /\ Len(req[c].log) = 2 /\ req[c].log[1] = req[d].log[1]
        /\ req[c].log[1].headers["authorization"] = Hidden
        /\ req[c].log[1].headers["cookie"] = Hidden

\* Whether a request is a PUT of /api/lessons/:id/availability.
AvailabilityPut(r) == r.method = "PUT" /\ Len(r.path) = 4 /\ r.path[4] = "availability"

\* C23: a PUT of /api/lessons/:id/availability is answered as the PUT of
\* /api/lessons/:id/space with the same id and body is: by the handler of
\* the space route, with 400 when there is no change value, and for a
\* lesson that exists with 200 and the lesson as the store holds it.
C23_AvailabilityAlias ==
    \A c \in Clients :
        (req[c].pc = "done" /\ AvailabilityPut(req[c]) /\ ~req[c].rejected) =>
            /\ req[c].op = Route("PUT", <<"api", "lessons", req[c].path[3], "space">>)
            /\ req[c].body.change = Undefined =>
                    req[c].status = 400 /\ req[c].error = "Change value is required"
            /\ (req[c].body.change # Undefined /\ Resolves(req[c].path[3])) =>
                    req[c].status = 200 /\ req[c].lesson = lessons[req[c].path[3]]

\* C24: the insertion script run on a collection that holds the sample
\* lessons finishes, and leaves the collection as it found it: as many
\* documents, and no two of them with the topic and location of one sample.
C24_DuplicateSafe ==
    script.pc = "finished" =>
        /\ script.totalCount = script.existingCount
        /\ lessons = InitLessons
        /\ \A k, l \in StoreIds :
                (/\ lessons[k].exists /\ lessons[l].exists
                 /\ lessons[k].topic = lessons[l].topic
                 /\ lessons[k].location = lessons[l].location) => k = l

\* The first check of the validation sequence that a body fails: 1 the
\* presence of the four required fields, 2 lessonIDs is a non-empty
\* sequence, 3 numberOfSpaces is a positive number, 4 every lessonID is
\* well formed; 0 when it fails none.
FirstFailing(b) ==
    IF LacksRequired(b) THEN 1
    ELSE IF b.lessonIDs.t # "array" \/ b.lessonIDs.s = <<>> THEN 2
    ELSE IF b.numberOfSpaces.t # "number" \/ b.numberOfSpaces.n <= 0 THEN 3
    ELSE IF NamesMalformed(b) THEN 4
    ELSE 0

\* The errors of the handler that name no check: those of its catch and of
\* the resolution of the lessons.
UnnamedErrors == {"", "Failed to create order", "One or more lesson IDs not found"}

\* C25: an order request that fails a check is answered with the error of
\* the first check it fails, which names that check, and without any store
\* call.
C25_ValidationOrder ==
    \A c \in Clients :
        (Done(c, "order") /\ FirstFailing(req[c].body) > 0) =>
            LET k == FirstFailing(req[c].body)
                named == <<"Missing required fields: name, phoneNumber, lessonIDs, numberOfSpaces",
                           "lessonIDs must be a non-empty array (1 or more lesson IDs)",
                           "numberOfSpaces must be a positive number">>
            IN  /\ req[c].calls = <<>> /\ req[c].insertedId = 0
                /\ k <= 3 => req[c].error = named[k]
                /\ k = 4 => req[c].error \notin UnnamedErrors \cup Range(named)

\* C26: a store call that rejects ends its request with 500 and one
\* response, without another store call; the step changes nothing but
\* that request, and the server keeps listening.
C26_StoreFailureIs500 ==
    /\ [](\A c \in Clients :
            req[c].rejected =>
                /\ req[c].pc = "done" /\ req[c].status = 500 /\ req[c].sent = 1
                /\ req[c].calls # <<>>)
    /\ [][\A c \in Clients :
            (~req[c].rejected /\ req'[c].rejected) =>
                /\ req[c].pc \notin {"idle", "done"}
                /\ req'[c].calls = req[c].calls
                /\ lessons' = lessons /\ orders' = orders
                /\ \A d \in Clients \ {c} : req'[d] = req[d]
                /\ server' = server /\ server.phase = "listening"]_vars

\* The insertOne of an order request was rejected after its find had been
\* answered: the request got 500 and persisted nothing, while the request
\* of the other client was answered 201 with its order.
C26_Witness ==
    \E c, d \in Clients :
        /\ Done(c, "order") /\ req[c].rejected /\ req[c].status = 500
        /\ req[c].calls = <<"lessons.find", "orders.insertOne">>
        /\ req[c].insertedId = 0
        /\ Done(d, "order") /\ req[d].status = 201
        /\ orders = <<req[d].order>>

\* C27: the server listens only with db set, so every request a handler
\* works on or has answered found db set; a server that has exited has
\* never listened, answers no request and stays exited.
C27_ListenAfterConnect ==
    /\ [](server.phase = "listening" => server.db)
    /\ [](\A c \in Clients : req[c].pc # "idle" => server.db /\ server.phase = "listening")
    /\ [](server.phase = "exited" => \A c \in Clients : req[c] = Idle)
    /\ [][server.phase = "exited" => server' = server]_vars
    /\ [][server'.phase = "listening" => server.phase \in {"connected", "listening"}]_vars

\* The server connected, listened and answered GET /api/lessons from the
\* store.
C27_Witness ==
    \E c \in Clients :
        /\ server = Serving
        /\ Done(c, "lessons") /\ req[c].status = 200
        /\ Len(req[c].lessonList) = 2

\* Whether the body lists a lesson identifier more than once.
ListsTwice(b) ==
    /\ b.lessonIDs.t = "array"
    /\ \E i, j \in 1..Len(b.lessonIDs.s) : i < j /\ b.lessonIDs.s[i] = b.lessonIDs.s[j]

\* C28: an order request that passes every check and lists only lessons
\* that exist, one of them more than once, is answered 400 'One or more
\* lesson IDs not found' and persists nothing (the store answering every
\* call of the request).
C28_DuplicateIdsRejected ==
    \A c \in Clients :
        (/\ Done(c, "order") /\ ~req[c].rejected
         /\ FirstFailing(req[c].body) = 0 /\ ListsTwice(req[c].body)
         /\ \A i \in 1..Len(req[c].body.lessonIDs.s) : Resolves(req[c].body.lessonIDs.s[i]))
            => /\ req[c].status = 400
               /\ req[c].error = "One or more lesson IDs not found"
               /\ req[c].insertedId = 0
               /\ req[c].calls = <<"lessons.find">>

\* Mathematics listed twice: one lesson found for two identifiers, 400.
C28_Witness ==
    \E c \in Clients :
        /\ Done(c, "order") /\ req[c].status = 400
        /\ req[c].body.lessonIDs = Arr(<<"L1", "L1">>)
        /\ req[c].body.numberOfSpaces = Whole(2)
        /\ req[c].error = "One or more lesson IDs not found"
        /\ Len(FindLessons(req[c].ids)) = 1
        /\ orders = <<>>

\* The sum of the prices of the entries of a lessonDetails.
RECURSIVE SumDetails(_)
SumDetails(details) ==
    IF details = <<>> THEN Number(0)
    ELSE Plus(details[1].price, SumDetails(Tail(details)))

\* Whether a lessonDetails holds one entry for each identifier of
\* lessonIDs and no other.
OneEntryPerId(o) ==
    /\ Len(o.lessonDetails) = Len(o.lessonIDs)
    /\ {o.lessonDetails[i].id : i \in 1..Len(o.lessonDetails)} = Range(o.lessonIDs)
    /\ \A i, j \in 1..Len(o.lessonDetails) :
            o.lessonDetails[i].id = o.lessonDetails[j].id => i = j

\* C29: every order of the collection has one lessonDetails entry for each
\* of its lessonIDs and no other; the entries are the topic, price and
\* location of the lessons as they are when the handler's find resolves;
\* totalPrice is the sum of the entries' prices times the numberOfSpaces of
\* the request; and the document inserted is the one so built.
C29_DetailsMatchIds ==
    /\ [](\A i \in 1..Len(orders) : OneEntryPerId(orders[i]))
    /\ [](\A c \in Clients :
            (Done(c, "order") /\ req[c].status = 201) =>
                /\ OneEntryPerId(req[c].order)
                /\ req[c].order.lessonIDs = req[c].body.lessonIDs.s
                /\ req[c].order.totalPrice =
                        Times(SumDetails(req[c].order.lessonDetails),
                              req[c].body.numberOfSpaces))
    /\ [][\A c \in Clients :
            /\ (req[c].op = "order" /\ req[c].pc = "find" /\ req'[c].pc = "insert") =>
                    LET o == req'[c].newOrder
                    IN  /\ OneEntryPerId(o)
                        /\ \A i \in 1..Len(o.lessonDetails) :
                            LET d == o.lessonDetails[i]
                            IN  /\ lessons[d.id].exists
                                /\ d.topic = lessons[d.id].topic
                                /\ d.price = lessons[d.id].price
                                /\ d.location = lessons[d.id].location
                        /\ o.totalPrice =
                                Times(SumDetails(o.lessonDetails), req[c].body.numberOfSpaces)
            /\ (req[c].op = "order" /\ req[c].pc = "insert" /\ req'[c].pc = "fetch") =>
                    /\ Len(orders') = Len(orders) + 1
                    /\ orders'[Len(orders')] =
                            [req[c].newOrder EXCEPT !._id = req'[c].insertedId]]_vars

\* Physics then Mathematics, 2.5 spaces: the snapshot holds both lessons,
\* in the order of the store, and the total is (25 + 35) * 2.5 = 150.
C29_Witness ==
    \E c \in Clients :
        /\ Done(c, "order") /\ req[c].status = 201
        /\ req[c].body.lessonIDs = Arr(<<"L2", "L1">>)
        /\ req[c].body.numberOfSpaces = Number(5)
        /\ Len(orders) = 1
        /\ orders[1].lessonIDs = <<"L2", "L1">>
        /\ orders[1].lessonDetails[1].id = "L1"
        /\ orders[1].lessonDetails[1].topic = <<"Mathematics">>
        /\ orders[1].lessonDetails[2].id = "L2"
        /\ orders[1].totalPrice = Whole(150)

\* The next piece of the handler of client c: the store answers the call
\* the handler awaits, or rejects it.
HandlerStep(c) ==
    \/ OrderFind(c) \/ OrderInsert(c) \/ OrderFetch(c)
    \/ SpaceFind(c) \/ SpaceUpdate(c) \/ SpaceFetch(c)
    \/ LessonInsert(c) \/ LessonFetch(c)
    \/ LessonsFind(c) \/ LessonFind(c) \/ OrdersFind(c) \/ OrderGet(c)
    \/ SearchFind(c)

\* C30: a request has no response while its handler awaits the store and
\* exactly one once the handler is over; a handler that awaits always has
\* a next piece to run; no step sends a second response; and the step of
\* a store call that rejects sends the one response of its request.
C30_ExactlyOneResponse ==
    /\ [](\A c \in Clients :
            /\ req[c].pc = "done" => req[c].sent = 1
            /\ req[c].pc \notin {"idle", "done"} => req[c].sent = 0 /\ ENABLED HandlerStep(c)
            /\ req[c].pc \in {"idle", "done", "find", "insert", "fetch", "update"})
    /\ [][\A c \in Clients :
            /\ req'[c].sent <= 1
            /\ req[c].pc = "done" => req'[c] \in {req[c], Idle}
            /\ (req[c].pc \notin {"idle", "done"} /\ req'[c].rejected) =>
                    req'[c].pc = "done" /\ req'[c].sent = 1]_vars

\* One request was answered 404 after an early return and the other 500
\* after a store call that failed: each has one response.
C30_Witness ==
    \E c, d \in Clients :
        /\ Done(c, "getOrder") /\ req[c].status = 404 /\ req[c].sent = 1
        /\ req[d].pc = "done" /\ req[d].rejected /\ req[d].status = 500 /\ req[d].sent = 1

====
